---- MODULE Spec2Model ----
(***************************************************************************)
(* A model of simple_pipes (src/simple_pipes/__init__.py): the four stage  *)
(* kinds, the pipeline that chains them, and the value normalizer.         *)
(*                                                                         *)
(* Python's iterator protocol is modelled one hop at a time.  A pull by    *)
(* the consumer is a "req" message that travels upstream (towards stage 0, *)
(* the source); the answer is "rec" (a row), "stop" (StopIteration) or     *)
(* "err" (an exception) and travels downstream until it reaches the        *)
(* consumer, which sits at position Len(stages) + 1.  A generator that     *)
(* has run to its end, or through which an exception has propagated, is    *)
(* finished (alive = FALSE) and answers every later next() with "stop".    *)
(* The builtin filter object keeps no such flag.                           *)
(*                                                                         *)
(* ETLPipeline.run() may be called again and again: every call threads the *)
(* same source object through a new chain of generators and filter         *)
(* objects, and the chains of earlier calls stay usable.  Run r is the     *)
(* chain the r-th call returned.  A source that is a list is iterated from *)
(* its start by every run; a source that is an iterator (a generator, a    *)
(* file) has one position, which all runs share.                           *)
(*                                                                         *)
(* Rows are functions from field names to integers.                        *)
(*                                                                         *)
(* Spec      chains of Transform, Filter and Split stages over a source.   *)
(* SpecAgg   an Aggregate stage over a source.                             *)
(* SpecNorm  one call of the function get_value_normalizer returns.        *)
(***************************************************************************)
EXTENDS Integers, Sequences, FiniteSets, Bags, TLC

\* ---------------------------------------------------------------- bounds
MaxVal == 1
MaxLen == 2
MaxStages == 2
MaxPulls == 5
MaxRuns == 2
AggMaxLen == 3

VARIABLES
    source,   \* ETLPipeline._source: the rows of the source, in order
    srcKind,  \* "list" (iterable again and again) or "iter" (an iterator)
    stages,   \* ETLPipeline._steps: the stage configurations, in order
    srcPos,   \* per iterator over the source: how many rows it has handed out
    fed,      \* per run: the rows its first stage has pulled from the source
    st,       \* per run and stage: the state of its generator / iterator
    pc,       \* "idle", or the message in flight: "req", "rec", "stop", "err"
    at,       \* the position the message in flight is addressed to
    cur,      \* the run whose iterator the consumer is pulling (0: none yet)
    val,      \* the row carried by a "rec" message
    calls,    \* per run and stage: the rows the stage's caller-supplied
              \* function was applied to within the run, in order
    outs,     \* per run and stage: the rows it has yielded, in order
    results,  \* per run: what each pull of the consumer ended with, in order
    nrow,     \* norm_values: the row being normalized
    norms,    \* norm_values: value_norms, the specification
    nkeys,    \* norm_values: the fields of row.items() not yet visited
    nout,     \* norm_values: output
    nstat     \* norm_values: "run", "done" or "err"

pipeVars == <<source, srcKind, stages, srcPos, fed, st, pc, at, cur, val, calls,
              outs, results>>
normVars == <<nrow, norms, nkeys, nout, nstat>>
vars == <<source, srcKind, stages, srcPos, fed, st, pc, at, cur, val, calls,
          outs, results, nrow, norms, nkeys, nout, nstat>>

\* ------------------------------------------------------------ rows, values
Vals == 0..MaxVal

SeqsUpTo(S, n) == UNION {[1..k -> S] : k \in 0..n}

RowsOver(F) == [F -> Vals]

Ok(v) == [ok |-> TRUE, v |-> v]

Raise(v) == [ok |-> FALSE, v |-> v]

NoRow == [a |-> 0]

\* ------------------------------------------ caller-supplied functions (inputs)
\* row_transform: "flip" is lambda row: dict(row, a=MaxVal - row['a']);
\* "guard" is a function that raises on a row whose a is 0 and returns any
\* other row unchanged.  Both raise KeyError on a row without the field a.
row_transform(fn, row) ==
    IF "a" \notin DOMAIN row THEN Raise(row)
    ELSE IF fn = "flip" THEN Ok([row EXCEPT !["a"] = MaxVal - row["a"]])
    ELSE IF row["a"] = 0 THEN Raise(row) ELSE Ok(row)

\* filter_func: "pos" is lambda row: row['a'] > 0; "inv" is
\* lambda row: 1 // row['a'] > 0, which raises ZeroDivisionError when a is 0.
filter_func(fn, row) ==
    IF "a" \notin DOMAIN row THEN Raise(FALSE)
    ELSE IF fn = "pos" THEN Ok(row["a"] > 0)
    ELSE IF row["a"] = 0 THEN Raise(FALSE) ELSE Ok(row["a"] = 1)

\* row_splitter: "rep" is lambda row: [row] * (2 * row['a']); "chk" is
\* lambda row: [row] * (1 // row['a']), which raises when a is 0.
row_splitter(fn, row) ==
    IF "a" \notin DOMAIN row THEN Raise(<<>>)
    ELSE IF fn = "rep" THEN Ok([k \in 1..(2 * row["a"]) |-> row])
    ELSE IF row["a"] = 0 THEN Raise(<<>>)
    ELSE IF row["a"] = 1 THEN Ok(<<row>>) ELSE Ok(<<>>)

\* ------------------------------------------------------- ETLStreamingStep
\* run calls self.step, the constructor's argument, and not _step: with no
\* function supplied self.step is None and the call raises TypeError.
StreamingCall(fn, row) ==
    IF fn = "None" THEN Raise(row) ELSE row_transform(fn, row)

\* ETLStreamingStep._step, the pass-through fallback that run never calls.
Streaming_step(fn, row) ==
    IF fn # "None" THEN row_transform(fn, row) ELSE Ok(row)

\* ----------------------------------------------------------- ETLSplitStep
\* (mutant) a default splitter that yields the row twice.
Split_step_twice(row) == <<row, row>>

\* ETLSplitStep._step, the default splitter.
Split_step(row) == <<row>>

\* self.step = row_splitter or self._step
SplitCall(fn, row) ==
    IF fn = "None" THEN Ok(Split_step(row)) ELSE row_splitter(fn, row)

\* (mutant) the outer loop pulls the next row at every next().
SplitNeedsRow_always(pending) == TRUE

\* The outer loop of run pulls the next row once the inner loop has yielded
\* every split of the current one.
SplitNeedsRow(pending) == pending = <<>>

\* ---------------------------------------------------------- ETLFilterStep
\* (mutant) a filter that keeps every item.
FilterKeeps_all(res) == TRUE

\* filter() keeps an item when the function's result is true.
FilterKeeps(res) == res

\* ------------------------------------------------------------ control
N == Len(stages)

\* The number of calls of ETLPipeline.run() so far.
runs == Len(results)

RECURSIVE SumLens(_)
SumLens(ss) == IF ss = <<>> THEN 0 ELSE Len(Head(ss)) + SumLens(Tail(ss))

\* The pulls the consumer has made, over all runs.
TotalPulls == SumLens(results)

\* The iterator over the source that run r pulls from: iter() of a list is a
\* new iterator for every run, iter() of an iterator is that iterator.
SrcIt(r) == IF srcKind = "iter" THEN 1 ELSE r

Go(p, a, v) == pc' = p /\ at' = a /\ val' = v

\* A stage's iterator before its first next().  pending: the splits of the
\* current row a Split stage has yet to yield.  phase, buf, gpos: where an
\* Aggregate stage is ("new", "mat" while list(data) runs, "emit" once sorted),
\* its list d, and the index in d at which groupby's next group starts.
\* keyed counts the rows whose key sorted() has derived; built lists the
\* groups (by ordinal) on which a field builder has been invoked; kerr says
\* that the key function has raised within the run.
Fresh == [alive |-> TRUE, pending |-> <<>>, phase |-> "new", buf |-> <<>>,
          gpos |-> 1, keyed |-> 0, built |-> <<>>, kerr |-> FALSE]

Finish(i) == [st EXCEPT ![cur][i].alive = FALSE]

Called(i, row) == [calls EXCEPT ![cur][i] = Append(@, row)]

Yielded(i, row) == [outs EXCEPT ![cur][i] = Append(@, row)]

\* ETLPipeline.run: threads the source through the stages.  Every stage's run
\* is a generator function or a call of filter(): a new chain is built and
\* nothing is pulled.  The chains of earlier calls are left as they are.
ETLPipeline_run ==
    /\ pc = "idle"
    /\ runs < MaxRuns
    /\ st' = Append(st, [i \in 1..N |-> Fresh])
    /\ calls' = Append(calls, [i \in 1..N |-> <<>>])
    /\ outs' = Append(outs, [i \in 1..N |-> <<>>])
    /\ results' = Append(results, <<>>)
    /\ fed' = Append(fed, <<>>)
    /\ srcPos' = IF srcKind = "list" THEN Append(srcPos, 0) ELSE srcPos
    /\ UNCHANGED <<source, srcKind, stages, pc, at, cur, val>>
    /\ UNCHANGED normVars

\* The consumer calls next() on what one of the calls of run() returned.
Pull ==
    /\ pc = "idle"
    /\ TotalPulls < MaxPulls
    /\ \E r \in 1..runs :
          /\ cur' = r
          /\ Go("req", N, NoRow)
    /\ UNCHANGED <<source, srcKind, stages, srcPos, fed, st, calls, outs, results>>
    /\ UNCHANGED normVars

\* The consumer's next() returns a row, or raises StopIteration or an error.
Consume ==
    /\ pc \in {"rec", "stop", "err"}
    /\ at = N + 1
    /\ results' = [results EXCEPT ![cur] = Append(@, pc)]
    /\ Go("idle", at, NoRow)
    /\ UNCHANGED <<source, srcKind, stages, srcPos, fed, st, cur, calls, outs>>
    /\ UNCHANGED normVars

\* next() on the run's iterator over the source.
SourceNext ==
    /\ pc = "req"
    /\ at = 0
    /\ LET k == SrcIt(cur)
       IN IF srcPos[k] < Len(source)
          THEN /\ srcPos' = [srcPos EXCEPT ![k] = @ + 1]
               /\ fed' = [fed EXCEPT ![cur] = Append(@, source[srcPos[k] + 1])]
               /\ Go("rec", 1, source[srcPos[k] + 1])
          ELSE /\ UNCHANGED <<srcPos, fed>>
               /\ Go("stop", 1, NoRow)
    /\ UNCHANGED <<source, srcKind, stages, st, cur, calls, outs, results>>
    /\ UNCHANGED normVars

\* ETLStreamingStep.run:  for row in data: yield self.step(row)
ETLStreamingStep_run ==
    /\ pc # "idle"
    /\ at \in 1..N
    /\ stages[at].kind = "T"
    /\ LET i == at
           r == StreamingCall(stages[i].fn, val)
       IN CASE pc = "req" ->
                 /\ IF st[cur][i].alive THEN Go("req", i - 1, NoRow)
                                        ELSE Go("stop", i + 1, NoRow)
                 /\ UNCHANGED <<st, calls, outs>>
            [] pc = "rec" ->
                 /\ calls' = Called(i, val)
                 /\ IF r.ok
                    THEN Go("rec", i + 1, r.v) /\ outs' = Yielded(i, r.v)
                         /\ st' = st
                    ELSE Go("err", i + 1, NoRow) /\ outs' = outs
                         /\ st' = Finish(i)
            [] pc = "stop" ->
                 /\ Go("stop", i + 1, NoRow)
                 /\ st' = Finish(i)
                 /\ UNCHANGED <<calls, outs>>
            [] pc = "err" ->
                 /\ Go("err", i + 1, NoRow)
                 /\ st' = Finish(i)
                 /\ UNCHANGED <<calls, outs>>
    /\ UNCHANGED <<source, srcKind, stages, srcPos, fed, cur, results>>
    /\ UNCHANGED normVars

\* ETLFilterStep.run:  return filter(self._filter_func, data)
\* A filter object is no generator: an exception that passes through it, from
\* its function or from upstream, leaves it as usable as before.
ETLFilterStep_run ==
    /\ pc # "idle"
    /\ at \in 1..N
    /\ stages[at].kind = "F"
    /\ LET i == at
           r == filter_func(stages[i].fn, val)
       IN CASE pc = "req" ->
                 /\ Go("req", i - 1, NoRow)
                 /\ UNCHANGED <<calls, outs>>
            [] pc = "rec" ->
                 /\ calls' = Called(i, val)
                 /\ IF ~r.ok
                    THEN Go("err", i + 1, NoRow) /\ outs' = outs
                    ELSE IF FilterKeeps(r.v)
                    THEN Go("rec", i + 1, val) /\ outs' = Yielded(i, val)
                    ELSE Go("req", i - 1, NoRow) /\ outs' = outs
            [] pc = "stop" ->
                 /\ Go("stop", i + 1, NoRow)
                 /\ UNCHANGED <<calls, outs>>
            [] pc = "err" ->
                 /\ Go("err", i + 1, NoRow)
                 /\ UNCHANGED <<calls, outs>>
    /\ UNCHANGED <<source, srcKind, stages, srcPos, fed, st, cur, results>>
    /\ UNCHANGED normVars

\* ETLSplitStep.run:  for row in data: for split in self.step(row): yield split
ETLSplitStep_run ==
    /\ pc # "idle"
    /\ at \in 1..N
    /\ stages[at].kind = "S"
    /\ LET i == at
           r == SplitCall(stages[i].fn, val)
           p == st[cur][i].pending
       IN CASE pc = "req" ->
                 /\ IF ~st[cur][i].alive
                    THEN Go("stop", i + 1, NoRow) /\ UNCHANGED <<st, outs>>
                    ELSE IF ~SplitNeedsRow(p)
                    THEN /\ Go("rec", i + 1, Head(p))
                         /\ outs' = Yielded(i, Head(p))
                         /\ st' = [st EXCEPT ![cur][i].pending = Tail(p)]
                    ELSE Go("req", i - 1, NoRow) /\ UNCHANGED <<st, outs>>
                 /\ calls' = calls
            [] pc = "rec" ->
                 /\ calls' = Called(i, val)
                 /\ IF ~r.ok
                    THEN Go("err", i + 1, NoRow) /\ outs' = outs
                         /\ st' = Finish(i)
                    ELSE IF r.v = <<>>
                    THEN Go("req", i - 1, NoRow) /\ UNCHANGED <<st, outs>>
                    ELSE /\ Go("rec", i + 1, Head(r.v))
                         /\ outs' = Yielded(i, Head(r.v))
                         /\ st' = [st EXCEPT ![cur][i].pending = Tail(r.v)]
            [] pc = "stop" ->
                 /\ Go("stop", i + 1, NoRow)
                 /\ st' = Finish(i)
                 /\ UNCHANGED <<calls, outs>>
            [] pc = "err" ->
                 /\ Go("err", i + 1, NoRow)
                 /\ st' = Finish(i)
                 /\ UNCHANGED <<calls, outs>>
    /\ UNCHANGED <<source, srcKind, stages, srcPos, fed, cur, results>>
    /\ UNCHANGED normVars

\* ------------------------------------------------------------ ETLAggStep
\* key_func as passed to the constructor (inputs):
\*   "by_a"    the list ['a']            "by_ab"  the list ['a', 'b']
\*   "fn_b"    lambda row: K(k=row['b'])          with K = namedtuple('K', 'k')
\*   "fn_inv"  lambda row: K(k=1 // row['a'])     raises when a is 0
\*   "fn_join" compound_key_func_gen(['a'])[0]    a string, no namedtuple
\*   "fn_lim"  a function that keeps count of its applications: it returns
\*             K(k=row['b']) Lim times and raises from then on
KeySpecs == {"by_a", "by_ab", "fn_b", "fn_inv", "fn_join", "fn_lim"}

\* The applications "fn_lim" allows: one less than sorted() and groupby()
\* together make over a list of AggMaxLen rows.
Lim == 2 * AggMaxLen - 1

\* A key function whose outcome for a row is the same at every application.
Deterministic(ks) == ks # "fn_lim"

\* isinstance(key_func, Iterable)
IsFieldList(ks) == ks \in {"by_a", "by_ab"}

KeyFields(ks) == IF ks = "by_a" THEN <<"a">> ELSE <<"a", "b">>

\* A key: nt says whether it is a namedtuple, names are its _fields and vals
\* its items.  Keys compare as the tuples of their items.
Key(nt, names, vals) == [nt |-> nt, names |-> names, vals |-> vals]

\* _get_grouping_key(fields).get_key: key(**{field: row[field] ...})
get_key(fields, row) ==
    IF \E n \in DOMAIN fields : fields[n] \notin DOMAIN row
    THEN Raise(Key(TRUE, fields, <<>>))
    ELSE Ok(Key(TRUE, fields, [n \in DOMAIN fields |-> row[fields[n]]]))

\* compound_key_func_gen(fields).key_func: '-'.join(str(row[field]) ...).
\* The string is kept as the tuple of its parts; strings of one-digit parts
\* compare as these tuples do.
key_func(fields, row) ==
    IF \E n \in DOMAIN fields : fields[n] \notin DOMAIN row
    THEN Raise(Key(FALSE, <<>>, <<>>))
    ELSE Ok(Key(FALSE, <<>>, [n \in DOMAIN fields |-> row[fields[n]]]))

\* self._key_func(row), when the function has been applied n times before.
KeyCall(ks, n, row) ==
    IF IsFieldList(ks) THEN get_key(KeyFields(ks), row)
    ELSE IF ks = "fn_join" THEN key_func(<<"a">>, row)
    ELSE IF ks \in {"fn_b", "fn_lim"}
    THEN IF "b" \in DOMAIN row /\ (ks = "fn_b" \/ n < Lim)
         THEN Ok(Key(TRUE, <<"k">>, <<row["b"]>>))
         ELSE Raise(Key(TRUE, <<"k">>, <<>>))
    ELSE IF "a" \in DOMAIN row /\ row["a"] # 0
    THEN Ok(Key(TRUE, <<"k">>, <<1 \div row["a"]>>))
    ELSE Raise(Key(TRUE, <<"k">>, <<>>))

\* The key the function returns for the row, when it returns.
KeyOf(ks, row) == KeyCall(ks, 0, row).v

\* The order of tuples: at the first item that differs.
KeyLess(k1, k2) ==
    \E n \in DOMAIN k1.vals :
        /\ k1.vals[n] < k2.vals[n]
        /\ \A m \in 1..(n - 1) : k1.vals[m] = k2.vals[m]

RECURSIVE Insert(_, _, _)
Insert(ks, x, s) ==
    IF s = <<>> THEN <<x>>
    ELSE IF KeyLess(KeyOf(ks, x), KeyOf(ks, Head(s))) THEN <<x>> \o s
    ELSE <<Head(s)>> \o Insert(ks, x, Tail(s))

RECURSIVE SortInto(_, _, _)
SortInto(ks, s, acc) ==
    IF s = <<>> THEN acc ELSE SortInto(ks, Tail(s), Insert(ks, Head(s), acc))

\* (mutant) groupby over the unsorted list.
SortByKey_unsorted(ks, s) == s

\* sorted(list(data), key=self._key_func): a stable sort.
SortByKey(ks, s) == SortInto(ks, s, <<>>)

\* The first row of s on which the key function raises when it is applied to
\* the rows of s in order after n0 earlier applications; 0 when there is none.
FirstBadKey(ks, n0, s) ==
    IF \A n \in DOMAIN s : KeyCall(ks, n0 + n - 1, s[n]).ok THEN 0
    ELSE CHOOSE n \in DOMAIN s :
             /\ ~KeyCall(ks, n0 + n - 1, s[n]).ok
             /\ \A m \in 1..(n - 1) : KeyCall(ks, n0 + m - 1, s[m]).ok

\* groupby: the group that starts at d[g] ends before the next row whose key
\* differs.
RECURSIVE RunEnd(_, _, _)
RunEnd(ks, d, g) ==
    IF g < Len(d) /\ KeyOf(ks, d[g + 1]).vals = KeyOf(ks, d[g]).vals
    THEN RunEnd(ks, d, g + 1) ELSE g

\* The rows groupby applies the key function to while it hands out the group
\* d[g..e]: the first row of the list when the group is the first, then each
\* further row of the group and, when there is one, the row after the group.
GroupKeyed(d, g, e) ==
    (IF g = 1 THEN <<d[1]>> ELSE <<>>)
        \o SubSeq(d, g + 1, IF e < Len(d) THEN e + 1 ELSE e)

\* (mutant) a row seeded with no field of its key.
AsDict_empty(key) == IF key.nt THEN Ok(<<>>) ELSE Raise(<<>>)

\* key._asdict(); AttributeError on a key that is no namedtuple.
AsDict(key) ==
    IF key.nt
    THEN Ok([f \in {key.names[n] : n \in DOMAIN key.names} |->
                key.vals[CHOOSE n \in DOMAIN key.names : key.names[n] = f]])
    ELSE Raise(<<>>)

RECURSIVE SumField(_, _)
SumField(field, group) ==
    IF group = <<>> THEN 0 ELSE Head(group)[field] + SumField(field, Tail(group))

\* sum_by_field(field): KeyError on a row without the field.
sum_by_field(field, group) ==
    IF \E n \in DOMAIN group : field \notin DOMAIN group[n] THEN Raise(0)
    ELSE Ok(SumField(field, group))

\* merge_fields, one row at a time: a field first seen is taken over, a field
\* seen before with another value raises.
RECURSIVE MergeInto(_, _)
MergeInto(group, output) ==
    IF group = <<>> THEN Ok(output)
    ELSE LET row == Head(group)
         IN IF \E f \in DOMAIN row \cap DOMAIN output : output[f] # row[f]
            THEN Raise(output)
            ELSE MergeInto(Tail(group), output @@ row)

merge_fields(group) == MergeInto(group, <<>>)

\* add_fields as passed to the constructor (inputs): "none" is the default {},
\* "total" is {'total': sum_by_field('b')}, "merge" is the function
\* merge_fields, "inv" is {'inv': lambda group: 1 // group[0]['b']}, which
\* raises on a group whose first row has b = 0.
AddSpecs == {"none", "total", "merge", "inv"}

\* The fields run adds to a group's row: self._add_fields(group) when it is
\* callable, {key: func(group) ...} when it is a dict.
AddCall(add, group) ==
    IF add = "merge" THEN merge_fields(group)
    ELSE IF add = "total"
    THEN LET t == sum_by_field("b", group)
         IN IF t.ok THEN Ok("total" :> t.v) ELSE Raise(<<>>)
    ELSE IF add = "inv"
    THEN IF "b" \in DOMAIN group[1] /\ group[1]["b"] # 0
         THEN Ok("inv" :> (1 \div group[1]["b"])) ELSE Raise(<<>>)
    ELSE Ok(<<>>)

\* agg_row.update(...): the added fields win over the key's.
Updated(agg_row, new) == new @@ agg_row

\* (mutant) the list is sorted and grouped as soon as the upstream answers.
Materialized_early(msg) == TRUE

\* list(data) is complete when the upstream raises StopIteration.
Materialized(msg) == msg = "stop"

\* (mutant) a generator that survives its builder's exception.
AliveAfter_resume(ok) == TRUE

\* A generator through which an exception has propagated is finished.
AliveAfter(ok) == ok

RECURSIVE SumCalls(_, _)
SumCalls(i, r) == IF r = 0 THEN 0 ELSE Len(calls[r][i]) + SumCalls(i, r - 1)

\* How often stage i's function has been applied, in all runs: the stage
\* object, and with it the function, is the same in every run.
TotalCalls(i) == SumCalls(i, runs)

\* ETLAggStep.run
\*   d = sorted(list(data), key=self._key_func)      derives every row's key
\*   for key, group in groupby(d, key=self._key_func):   derives them again,
\*       group = list(group)             within the pull that hands the row out
ETLAggStep_run ==
    /\ pc # "idle"
    /\ at \in 1..N
    /\ stages[at].kind = "A"
    /\ LET i == at
           s == st[cur][i]
           ks == stages[i].fn
           n0 == TotalCalls(i)
           b == IF pc = "rec" THEN Append(s.buf, val) ELSE s.buf
           bad == FirstBadKey(ks, n0, b)
           d == s.buf
           g == s.gpos
           e == RunEnd(ks, d, g)
           group == SubSeq(d, g, e)
           todo == GroupKeyed(d, g, e)
           bad2 == FirstBadKey(ks, n0, todo)
           seed == AsDict(KeyOf(ks, d[g]))
           new == AddCall(stages[i].add, group)
           invoked == IF stages[i].add = "none" THEN s.built
                      ELSE Append(s.built, Len(outs[cur][i]) + 1)
       IN CASE pc = "req" /\ ~s.alive ->
                 /\ Go("stop", i + 1, NoRow)
                 /\ UNCHANGED <<st, calls, outs>>
            [] pc = "req" /\ s.alive /\ s.phase = "new" ->
                 /\ Go("req", i - 1, NoRow)
                 /\ st' = [st EXCEPT ![cur][i].phase = "mat"]
                 /\ UNCHANGED <<calls, outs>>
            [] pc \in {"rec", "stop"} /\ ~Materialized(pc) ->
                 /\ Go("req", i - 1, NoRow)
                 /\ st' = [st EXCEPT ![cur][i].buf = b]
                 /\ UNCHANGED <<calls, outs>>
            [] pc \in {"rec", "stop"} /\ Materialized(pc) ->
                 /\ outs' = outs
                 /\ IF bad # 0
                    THEN /\ Go("err", i + 1, NoRow)
                         /\ calls' = [calls EXCEPT ![cur][i] = SubSeq(b, 1, bad)]
                         /\ st' = [st EXCEPT ![cur][i].alive = FALSE,
                                             ![cur][i].buf = b,
                                             ![cur][i].keyed = bad,
                                             ![cur][i].kerr = TRUE]
                    ELSE /\ Go("req", i, NoRow)
                         /\ calls' = [calls EXCEPT ![cur][i] = b]
                         /\ st' = [st EXCEPT ![cur][i].phase = "emit",
                                             ![cur][i].buf = SortByKey(ks, b),
                                             ![cur][i].keyed = Len(b)]
            [] pc = "req" /\ s.alive /\ s.phase = "emit" /\ g > Len(d) ->
                 /\ Go("stop", i + 1, NoRow)
                 /\ st' = Finish(i)
                 /\ UNCHANGED <<calls, outs>>
            [] pc = "req" /\ s.alive /\ s.phase = "emit" /\ g <= Len(d) ->
                 IF bad2 # 0
                 THEN /\ Go("err", i + 1, NoRow)
                      /\ calls' = [calls EXCEPT ![cur][i] = @ \o SubSeq(todo, 1, bad2)]
                      /\ outs' = outs
                      /\ st' = [st EXCEPT ![cur][i].alive = FALSE,
                                          ![cur][i].kerr = TRUE]
                 ELSE /\ calls' = [calls EXCEPT ![cur][i] = @ \o todo]
                      /\ IF ~seed.ok
                         THEN /\ Go("err", i + 1, NoRow)
                              /\ outs' = outs
                              /\ st' = [st EXCEPT ![cur][i].alive = FALSE,
                                                  ![cur][i].gpos = e + 1]
                         ELSE IF ~new.ok
                         THEN /\ Go("err", i + 1, NoRow)
                              /\ outs' = outs
                              /\ st' = [st EXCEPT ![cur][i].alive = AliveAfter(FALSE),
                                                  ![cur][i].gpos = e + 1,
                                                  ![cur][i].built = invoked]
                         ELSE /\ Go("rec", i + 1, Updated(seed.v, new.v))
                              /\ outs' = Yielded(i, Updated(seed.v, new.v))
                              /\ st' = [st EXCEPT ![cur][i].gpos = e + 1,
                                                  ![cur][i].built = invoked]
            [] pc = "err" ->
                 /\ Go("err", i + 1, NoRow)
                 /\ st' = Finish(i)
                 /\ UNCHANGED <<calls, outs>>
    /\ UNCHANGED <<source, srcKind, stages, srcPos, fed, cur, results>>
    /\ UNCHANGED normVars

\* ------------------------------------------------- get_value_normalizer
\* A value is an integer of Vals or Unhashable, which stands for a value that
\* cannot be a dict key (a list, a dict).
Unhashable == 0 - 1

NormVals == Vals \cup {Unhashable}

\* The entries of value_norms (inputs): "dict" is the mapping {0: 1}, "fn" the
\* function lambda v: v + 1 (TypeError on a list), "bad" the string 'x', which
\* is neither callable nor a dict.  "empty" is the dict {}.
NormEntries == {"dict", "fn", "bad"}

\* (mutant) value_norms.get(key): no default.
DefaultNorm_none == "bad"

\* The default of value_norms.get(key, {}).
DefaultNorm == "empty"

\* value_norms.get(key, {})
NormFor(vn, key) == IF key \in DOMAIN vn THEN vn[key] ELSE DefaultNorm

\* norm(val) for a callable norm; norm.get(val, val) for a dict, which hashes
\* val; neither for anything else.
ApplyNorm(norm, v) ==
    IF norm = "fn" THEN IF v = Unhashable THEN Raise(v) ELSE Ok(v + 1)
    ELSE IF norm \in {"dict", "empty"}
    THEN IF v = Unhashable THEN Raise(v)
         ELSE IF norm = "dict" /\ v = 0 THEN Ok(1) ELSE Ok(v)
    ELSE Raise(v)

\* One turn of the loop of norm_values: for key, val in row.items().
norm_values_loop ==
    /\ nstat = "run"
    /\ nkeys # <<>>
    /\ LET key == Head(nkeys)
           r == ApplyNorm(NormFor(norms, key), nrow[key])
       IN IF r.ok
          THEN /\ nout' = (key :> r.v) @@ nout
               /\ nkeys' = Tail(nkeys)
               /\ nstat' = nstat
          ELSE /\ nstat' = "err"
               /\ UNCHANGED <<nout, nkeys>>
    /\ UNCHANGED <<nrow, norms>>
    /\ UNCHANGED pipeVars

\* return output
norm_values_return ==
    /\ nstat = "run"
    /\ nkeys = <<>>
    /\ nstat' = "done"
    /\ UNCHANGED <<nrow, norms, nkeys, nout>>
    /\ UNCHANGED pipeVars

\* ------------------------------------------------------- specifications
NormIdle ==
    /\ nrow = NoRow
    /\ norms = NoRow
    /\ nkeys = <<>>
    /\ nout = NoRow
    /\ nstat = "off"

StreamStages ==
    [kind : {"T"}, fn : {"None", "flip", "guard"}, add : {"-"}]
        \cup [kind : {"F"}, fn : {"pos", "inv"}, add : {"-"}]
        \cup [kind : {"S"}, fn : {"None", "rep", "chk"}, add : {"-"}]

SrcKinds == {"list", "iter"}

\* ETLPipeline.__init__: no run yet; a source that is an iterator is at its
\* start.
PipeInit(src, kind, stgs) ==
    /\ source = src
    /\ srcKind = kind
    /\ stages = stgs
    /\ srcPos = IF kind = "iter" THEN <<0>> ELSE <<>>
    /\ fed = <<>>
    /\ st = <<>>
    /\ pc = "idle"
    /\ at = Len(stgs) + 1
    /\ cur = 0
    /\ val = NoRow
    /\ calls = <<>>
    /\ outs = <<>>
    /\ results = <<>>

Init ==
    /\ \E src \in SeqsUpTo(RowsOver({"a"}), MaxLen) : \E kind \in SrcKinds :
         \E stgs \in SeqsUpTo(StreamStages, MaxStages) : PipeInit(src, kind, stgs)
    /\ NormIdle

Next ==
    \/ ETLPipeline_run
    \/ Pull
    \/ SourceNext
    \/ ETLStreamingStep_run
    \/ ETLFilterStep_run
    \/ ETLSplitStep_run
    \/ Consume

Spec == Init /\ [][Next]_vars

AggStages == [kind : {"A"}, fn : KeySpecs, add : AddSpecs]

\* The rows fed to the Aggregate stage: a column a of values and a column b
\* that holds a flag, 0 or 1.
AggRows == {r \in [{"a", "b"} -> Vals \cup {0, 1}] : r["b"] \in {0, 1}}

InitAgg ==
    /\ \E src \in SeqsUpTo(AggRows, AggMaxLen) : \E kind \in SrcKinds :
         \E stg \in AggStages : PipeInit(src, kind, <<stg>>)
    /\ NormIdle

NextAgg ==
    \/ ETLPipeline_run
    \/ Pull
    \/ SourceNext
    \/ ETLAggStep_run
    \/ Consume

SpecAgg == InitAgg /\ [][NextAgg]_vars

NormFields == {"a", "b"}

\* The orders in which row.items() may list the fields F.
OrdersOf(F) ==
    {o \in [1..Cardinality(F) -> F] : \A m, n \in DOMAIN o : o[m] = o[n] => m = n}

InitNorm ==
    /\ PipeInit(<<>>, "list", <<>>)
    /\ \E F \in SUBSET NormFields : \E D \in SUBSET NormFields :
          /\ nrow \in [F -> NormVals]
          /\ norms \in [D -> NormEntries]
          /\ nkeys \in OrdersOf(F)
    /\ nout = <<>>
    /\ nstat = "run"

NextNorm ==
    \/ norm_values_loop
    \/ norm_values_return

SpecNorm == InitNorm /\ [][NextNorm]_vars

\* ------------------------------------------------- what the claims speak of
\* Run r is at rest: the consumer is between pulls, or is pulling another run.
Quiet(r) == pc = "idle" \/ cur # r

\* The rows that, in run r, the stage before position i has yielded so far.
UpOut(r, i) == IF i = 1 THEN fed[r] ELSE outs[r][i - 1]

\* The same, without the row that is still on its way to stage i.
Delivered(r, i) ==
    IF pc = "rec" /\ at = i /\ cur = r
    THEN SubSeq(UpOut(r, i), 1, Len(UpOut(r, i)) - 1)
    ELSE UpOut(r, i)

\* The run's iterator over the source has handed out the source's last row.
SourceDrained(r) == srcPos[SrcIt(r)] = Len(source)

\* p holds of the row: the predicate returns, and returns true.
PHolds(fn, row) == filter_func(fn, row).ok /\ filter_func(fn, row).v

RECURSIVE Subsequence(_, _)
Subsequence(fn, s) ==
    IF s = <<>> THEN <<>>
    ELSE IF PHolds(fn, Head(s)) THEN <<Head(s)>> \o Subsequence(fn, Tail(s))
    ELSE Subsequence(fn, Tail(s))

\* g(row), with the default g that wraps the row in a one-element list; a row
\* on which g raises contributes nothing.
G(fn, row) ==
    IF fn = "None" THEN <<row>>
    ELSE IF row_splitter(fn, row).ok THEN row_splitter(fn, row).v ELSE <<>>

RECURSIVE Flatten(_, _)
Flatten(fn, s) ==
    IF s = <<>> THEN <<>> ELSE G(fn, Head(s)) \o Flatten(fn, Tail(s))

RECURSIVE SumLen(_, _)
SumLen(fn, s) ==
    IF s = <<>> THEN 0 ELSE Len(G(fn, Head(s))) + SumLen(fn, Tail(s))

RECURSIVE Mapped(_, _)
Mapped(fn, s) ==
    IF s = <<>> THEN <<>>
    ELSE IF row_transform(fn, Head(s)).ok
    THEN <<row_transform(fn, Head(s)).v>> \o Mapped(fn, Tail(s))
    ELSE Mapped(fn, Tail(s))

\* What stages 1..k make of the rows s when every row is pushed through at once
\* (the denotation of the chain, for rows on which no function raises).
RECURSIVE Eager(_, _)
Eager(k, s) ==
    IF k = 0 THEN s
    ELSE LET u == Eager(k - 1, s)
             g == stages[k]
         IN CASE g.kind = "T" -> Mapped(g.fn, u)
              [] g.kind = "F" -> Subsequence(g.fn, u)
              [] g.kind = "S" -> Flatten(g.fn, u)

AllRec(r) == \A j \in DOMAIN results[r] : results[r][j] = "rec"

\* C3 (as claimed): a Transform stage, with a function f or with none (then the
\* identity), has produced, whenever its run is at rest, one row per row it
\* was handed, the i-th being f of the i-th.
C3_Claim ==
    \A r \in 1..runs : \A i \in 1..N :
        (/\ stages[i].kind = "T"
         /\ Quiet(r)
         /\ \A k \in DOMAIN UpOut(r, i) :
                Streaming_step(stages[i].fn, UpOut(r, i)[k]).ok)
        => /\ Len(outs[r][i]) = Len(UpOut(r, i))
           /\ \A k \in DOMAIN UpOut(r, i) :
                  outs[r][i][k] = Streaming_step(stages[i].fn, UpOut(r, i)[k]).v

\* C5 (as claimed): once a pull has failed, no later pull of the same run
\* yields a row.
C5_Claim ==
    \A r \in 1..runs : \A j, k \in DOMAIN results[r] :
        (j < k /\ results[r][j] = "err") => results[r][k] # "rec"

\* C7: in every run, a Filter stage has applied p exactly once to each row
\* delivered to it, in order and to no other row (none before the run's first
\* pull), and has yielded exactly the subsequence of those rows of which p
\* holds.
C7_Filter ==
    \A r \in 1..runs : \A i \in 1..N :
        stages[i].kind = "F"
        => /\ calls[r][i] = Delivered(r, i)
           /\ outs[r][i] = Subsequence(stages[i].fn, calls[r][i])
           /\ Len(outs[r][i]) <= Len(calls[r][i])
           /\ \A k \in DOMAIN outs[r][i] : PHolds(stages[i].fn, outs[r][i][k])
           /\ (results[r] = <<>> /\ Quiet(r)) => calls[r][i] = <<>>

\* A Filter stage has dropped one row and kept another.
C7_Witness ==
    \E r \in 1..runs : \E i \in 1..N :
        /\ stages[i].kind = "F"
        /\ pc = "idle"
        /\ Len(calls[r][i]) >= 2
        /\ outs[r][i] # <<>>
        /\ Len(outs[r][i]) < Len(calls[r][i])

\* C8: what a Split stage has yielded, followed by the splits of the current
\* row it has yet to yield, is the concatenation in input order of g(row) over
\* the rows delivered to it; once the stage has run to its end nothing is left
\* to yield, and the output's length is the sum of the lengths of the g(row).
C8_Split ==
    \A r \in 1..runs : \A i \in 1..N :
        stages[i].kind = "S"
        => /\ calls[r][i] = Delivered(r, i)
           /\ outs[r][i] \o st[r][i].pending = Flatten(stages[i].fn, calls[r][i])
           /\ ~st[r][i].alive
              => /\ st[r][i].pending = <<>>
                 /\ Len(outs[r][i]) = SumLen(stages[i].fn, calls[r][i])

\* A Split stage has run to its end over rows one of which split into nothing.
C8_Witness ==
    \E r \in 1..runs : \E i \in 1..N :
        /\ stages[i].kind = "S"
        /\ ~st[r][i].alive
        /\ pc = "idle"
        /\ results[r] # <<>>
        /\ results[r][Len(results[r])] = "stop"
        /\ \E k \in DOMAIN calls[r][i] : G(stages[i].fn, calls[r][i][k]) = <<>>
        /\ outs[r][i] # <<>>

\* The default splitter has passed two rows on.
C8_WitnessDefault ==
    \E r \in 1..runs : \E i \in 1..N :
        /\ stages[i].kind = "S"
        /\ stages[i].fn = "None"
        /\ ~st[r][i].alive
        /\ Len(outs[r][i]) >= 2

\* C9: in a chain of Transform, Filter and Split stages, a call of run() pulls
\* nothing and applies nothing: until the run it returned is pulled, the run
\* has taken no row from the source and the source's iterators are where they
\* were.  In every run a stage's function is applied to exactly the rows the
\* stage before it has produced, in that order; and when the consumer holds
\* k rows after k pulls of a run, the rows the run has pulled from the source
\* are the fewest whose processing yields k rows.
C9_PullChain ==
    /\ srcKind = "iter" => srcPos[1] = SumLens(fed)
    /\ \A r \in 1..runs :
        /\ srcKind = "list" => srcPos[r] = Len(fed[r])
        /\ (results[r] = <<>> /\ Quiet(r))
           => /\ fed[r] = <<>>
              /\ \A i \in 1..N : calls[r][i] = <<>> /\ outs[r][i] = <<>>
        /\ \A i \in 1..N : calls[r][i] = Delivered(r, i)
        /\ (Quiet(r) /\ results[r] # <<>> /\ AllRec(r))
           => /\ Len(fed[r]) >= 1
              /\ Len(Eager(N, SubSeq(fed[r], 1, Len(fed[r]) - 1))) < Len(results[r])
              /\ Len(results[r]) <= Len(Eager(N, fed[r]))

\* The consumer of a two-stage chain holds more rows than the run has pulled
\* from the source, which has rows left.
C9_Witness ==
    \E r \in 1..runs :
        /\ N = 2
        /\ pc = "idle"
        /\ results[r] # <<>>
        /\ AllRec(r)
        /\ ~SourceDrained(r)
        /\ Len(results[r]) > Len(fed[r])

\* A second call of run() over a source that is an iterator has been made
\* after the first run had pulled a row, and has pulled nothing.
C9_WitnessRerun ==
    /\ runs = 2
    /\ N >= 1
    /\ srcKind = "iter"
    /\ srcPos[1] = 1
    /\ results[1] # <<>>
    /\ results[2] = <<>>
    /\ pc = "idle"

\* ------------------------------------------------ the Aggregate stage's claims
Range(s) == {s[n] : n \in DOMAIN s}

\* The rows of a sequence as a multiset.
BagOf(s) == [r \in Range(s) |-> Cardinality({n \in DOMAIN s : s[n] = r})]

\* The groups groupby cuts the list d into, from index g on, in order.
RECURSIVE GroupRuns(_, _, _)
GroupRuns(ks, d, g) ==
    IF g > Len(d) THEN <<>>
    ELSE <<SubSeq(d, g, RunEnd(ks, d, g))>> \o GroupRuns(ks, d, RunEnd(ks, d, g) + 1)

\* Each group as its key and the multiset of its rows.
Grouping(ks, d) ==
    LET gs == GroupRuns(ks, d, 1)
    IN {[key |-> KeyOf(ks, gs[n][1]).vals, rows |-> BagOf(gs[n])] :
           n \in DOMAIN gs}

PermsOf(s) ==
    {[n \in DOMAIN s |-> s[f[n]]] :
        f \in {h \in [DOMAIN s -> DOMAIN s] :
                 \A m, n \in DOMAIN s : h[m] = h[n] => m = n}}

KeysIn(ks, s) == {KeyOf(ks, s[n]).vals : n \in DOMAIN s}

\* The rows of s whose key is k, in the order of s.
RECURSIVE RowsWithKey(_, _, _)
RowsWithKey(ks, s, k) ==
    IF s = <<>> THEN <<>>
    ELSE IF KeyOf(ks, Head(s)).vals = k
    THEN <<Head(s)>> \o RowsWithKey(ks, Tail(s), k)
    ELSE RowsWithKey(ks, Tail(s), k)

NoKeyRaises(ks, s) == \A n \in DOMAIN s : KeyCall(ks, 0, s[n]).ok

\* No application of the key function has raised in run r: for a deterministic
\* function because it raises on none of the run's rows.
KeyQuiet(r, i) ==
    IF Deterministic(stages[i].fn) THEN NoKeyRaises(stages[i].fn, fed[r])
    ELSE ~st[r][i].kerr

NoBuilderRaises(ks, add, s) ==
    \A k \in KeysIn(ks, s) : AddCall(add, RowsWithKey(ks, s, k)).ok

\* The keys of s below k: k's group is the (that many + 1)-th in ascending order.
KeysBelow(ks, s, k) ==
    {j \in KeysIn(ks, s) : \E n \in DOMAIN j : /\ j[n] < k[n]
                                               /\ \A m \in 1..(n - 1) : j[m] = k[m]}

\* The ordinal, in ascending key order, of the first group on which a field
\* builder raises; 0 when none does.
FirstBadGroup(ks, add, s) ==
    IF NoBuilderRaises(ks, add, s) THEN 0
    ELSE LET badKeys == {k \in KeysIn(ks, s) : ~AddCall(add, RowsWithKey(ks, s, k)).ok}
             first == CHOOSE k \in badKeys :
                          \A j \in badKeys : j = k \/ j \notin KeysBelow(ks, s, k)
         IN Cardinality(KeysBelow(ks, s, first)) + 1

\* C1: when the stage has sorted the input of a run, every permutation of that
\* input sorts and groups into the same groups (same keys, each with the same
\* multiset of rows), one group per distinct key; and a run that ends without
\* an error has yielded one row per key.
C1_OrderIndependent ==
    \A r \in 1..runs : \A i \in 1..N :
        stages[i].kind = "A"
        => LET ks == stages[i].fn
               input == fed[r]
               mine == Grouping(ks, st[r][i].buf)
           IN /\ (st[r][i].phase = "emit" /\ st[r][i].gpos = 1 /\ cur = r)
                 => /\ \A q \in PermsOf(input) :
                           Grouping(ks, SortByKey(ks, q)) = mine
                    /\ {x.key : x \in mine} = KeysIn(ks, input)
                    /\ Cardinality(mine) = Cardinality(KeysIn(ks, input))
                    /\ \A x \in mine : x.rows = BagOf(RowsWithKey(ks, input, x.key))
              /\ (Quiet(r) /\ results[r] # <<>>
                     /\ results[r][Len(results[r])] = "stop"
                     /\ \A n \in DOMAIN results[r] : results[r][n] # "err")
                 => Len(outs[r][i]) = Cardinality(KeysIn(ks, input))

\* An input that is not sorted, with a key that occurs twice and apart, has
\* been sorted and grouped.
C1_Witness ==
    \E r \in 1..runs : \E i \in 1..N :
        /\ stages[i].kind = "A"
        /\ st[r][i].phase = "emit"
        /\ st[r][i].gpos = 1
        /\ Len(fed[r]) = 3
        /\ st[r][i].buf # fed[r]
        /\ KeyOf(stages[i].fn, fed[r][1]).vals = KeyOf(stages[i].fn, fed[r][3]).vals
        /\ KeyOf(stages[i].fn, fed[r][1]).vals # KeyOf(stages[i].fn, fed[r][2]).vals

\* The key of an output row, read back from its fields.
KeyOfOut(names, row) == [n \in DOMAIN names |-> row[names[n]]]

\* What C2 promises of stage i, in every run, for the key specs in kss, once
\* the consumer has pulled the run more often than there are keys.
C2_Holds(kss) ==
    \A r \in 1..runs : \A i \in 1..N :
        (/\ stages[i].kind = "A"
         /\ stages[i].fn \in kss
         /\ KeyQuiet(r, i)
         /\ NoBuilderRaises(stages[i].fn, stages[i].add, fed[r])
         /\ Quiet(r)
         /\ Len(results[r]) > Cardinality(KeysIn(stages[i].fn, fed[r])))
        => LET ks == stages[i].fn
               K == Cardinality(KeysIn(ks, fed[r]))
               names == IF IsFieldList(ks) THEN KeyFields(ks) ELSE <<"k">>
           IN /\ SourceDrained(r)
              /\ Len(outs[r][i]) = K
              /\ \A n \in DOMAIN results[r] :
                     results[r][n] = IF n <= K THEN "rec" ELSE "stop"
              /\ \A n \in DOMAIN outs[r][i] :
                     /\ {names[m] : m \in DOMAIN names} \subseteq DOMAIN outs[r][i][n]
                     /\ KeyOfOut(names, outs[r][i][n]) \in KeysIn(ks, fed[r])
                     /\ \A m \in 1..(n - 1) :
                            KeyLess(Key(TRUE, names, KeyOfOut(names, outs[r][i][m])),
                                    Key(TRUE, names, KeyOfOut(names, outs[r][i][n])))

\* C2 (as claimed): for a list of field names and for any caller-supplied key
\* function alike, a run on which no function raises yields one row per
\* distinct key, in ascending key order, each seeded with the key's fields,
\* and nothing for an empty input.
C2_Claim == C2_Holds(KeySpecs)

\* C2 (amended): the same, for a list of field names and for a key function
\* that returns a namedtuple; with a key function whose keys are no
\* namedtuples the stage yields no row, and the first pull of a run over a
\* non-empty input ends with an error.
C2_Amended ==
    /\ C2_Holds({ks \in KeySpecs : ks # "fn_join"})
    /\ \A r \in 1..runs : \A i \in 1..N :
           (stages[i].kind = "A" /\ stages[i].fn = "fn_join")
           => /\ outs[r][i] = <<>>
              /\ (results[r] # <<>> /\ fed[r] # <<>>) => results[r][1] = "err"
              /\ (results[r] # <<>> /\ fed[r] = <<>>) => results[r][1] = "stop"

\* A key function's run over three rows has yielded its two groups and ended.
C2_Witness ==
    \E r \in 1..runs : \E i \in 1..N :
        /\ stages[i].kind = "A"
        /\ stages[i].fn = "fn_b"
        /\ stages[i].add = "total"
        /\ pc = "idle"
        /\ Len(fed[r]) = 3
        /\ Len(outs[r][i]) = 2
        /\ Len(results[r]) = 3
        /\ fed[r][1]["b"] > fed[r][2]["b"]

\* A field list's run has yielded three groups and ended.
C2_WitnessFields ==
    \E r \in 1..runs : \E i \in 1..N :
        /\ stages[i].kind = "A"
        /\ stages[i].fn = "by_ab"
        /\ pc = "idle"
        /\ Len(outs[r][i]) = 3
        /\ Len(results[r]) = 4

\* A run over an empty input has ended at the first pull.
C2_WitnessEmpty ==
    \E r \in 1..runs : \E i \in 1..N :
        /\ stages[i].kind = "A"
        /\ source = <<>>
        /\ results[r] = <<"stop">>

\* C4: in every run, an Aggregate stage that has yielded a row has pulled every
\* row of its upstream, been told that there are no more, and derived the key
\* of every one of them, in the order pulled, before any other application of
\* the key function within the run (groupby's); if a key function whose
\* outcome for a row is the same at every application raises on any row
\* pulled, the stage never yields a row and the run's first pull ends with the
\* error; and whenever any key function raises while the list is sorted, the
\* upstream has been pulled to its end and no row has been yielded.
C4_Blocking ==
    \A r \in 1..runs : \A i \in 1..N :
        stages[i].kind = "A"
        => /\ outs[r][i] # <<>>
              => /\ SourceDrained(r)
                 /\ st[r][i].phase = "emit"
                 /\ st[r][i].keyed = Len(fed[r])
                 /\ Len(calls[r][i]) >= Len(fed[r])
                 /\ SubSeq(calls[r][i], 1, Len(fed[r])) = fed[r]
           /\ (Deterministic(stages[i].fn) /\ ~NoKeyRaises(stages[i].fn, fed[r]))
              => /\ outs[r][i] = <<>>
                 /\ \A n \in DOMAIN results[r] : results[r][n] # "rec"
                 /\ results[r] # <<>> => results[r][1] = "err"
                 /\ st[r][i].keyed > 0 => SourceDrained(r)
           /\ (st[r][i].kerr /\ st[r][i].phase # "emit")
              => /\ outs[r][i] = <<>>
                 /\ SourceDrained(r)
                 /\ calls[r][i] = SubSeq(fed[r], 1, st[r][i].keyed)

\* The key function raised on the last of three rows, after all were pulled.
C4_Witness ==
    \E r \in 1..runs : \E i \in 1..N :
        /\ stages[i].kind = "A"
        /\ Deterministic(stages[i].fn)
        /\ Len(fed[r]) = 3
        /\ st[r][i].keyed = 3
        /\ ~st[r][i].alive
        /\ results[r] = <<"err">>
        /\ KeyCall(stages[i].fn, 0, fed[r][1]).ok

\* The stage has yielded its first row, with groups left, after three pulls
\* of its upstream.
C4_WitnessOutput ==
    \E r \in 1..runs : \E i \in 1..N :
        /\ stages[i].kind = "A"
        /\ Len(fed[r]) = 3
        /\ Len(outs[r][i]) = 1
        /\ st[r][i].gpos <= Len(fed[r])

\* The key function that counts its applications has raised when groupby
\* applied it again, after the run had yielded a row.
C4_WitnessSecondDerivation ==
    \E r \in 1..runs : \E i \in 1..N :
        /\ stages[i].kind = "A"
        /\ st[r][i].kerr
        /\ st[r][i].phase = "emit"
        /\ results[r] = <<"rec", "err">>

\* C10: in every run the builders are invoked group by group in ascending key
\* order, each group's only within the pull that asks for its row; when a
\* builder raises on the j-th group the rows of groups 1..j-1 have been
\* yielded, the pull that asked for the j-th ends with the error, and no
\* builder is invoked again.  Without builders none is invoked.
C10_PerGroup ==
    \A r \in 1..runs : \A i \in 1..N :
        stages[i].kind = "A"
        => LET j == IF NoKeyRaises(stages[i].fn, fed[r])
                    THEN FirstBadGroup(stages[i].fn, stages[i].add, fed[r])
                    ELSE 0
               built == st[r][i].built
               pulls == Len(results[r]) + (IF Quiet(r) THEN 0 ELSE 1)
           IN /\ built = [n \in 1..Len(built) |-> n]
              /\ Len(built) <= pulls
              /\ stages[i].add = "none" => built = <<>>
              /\ stages[i].add # "none"
                 => /\ Len(outs[r][i]) <= Len(built)
                    /\ Len(built) <= Len(outs[r][i]) + 1
                    /\ (Quiet(r) /\ j = 0) => Len(built) = Len(outs[r][i])
              /\ ~NoKeyRaises(stages[i].fn, fed[r]) => built = <<>>
              /\ (Quiet(r) /\ j # 0)
                 => /\ Len(built) <= j
                    /\ Len(outs[r][i]) <= j - 1
                    /\ Len(built) = j
                       => /\ Len(outs[r][i]) = j - 1
                          /\ ~st[r][i].alive
                          /\ \A n \in DOMAIN results[r] :
                                 results[r][n] = IF n < j THEN "rec"
                                                 ELSE IF n = j THEN "err" ELSE "stop"

\* A builder raised on the second group after the first group's row was
\* yielded, a third group was left, and the consumer pulled again.
C10_Witness ==
    \E r \in 1..runs : \E i \in 1..N :
        /\ stages[i].kind = "A"
        /\ results[r] = <<"rec", "err", "stop">>
        /\ st[r][i].built = <<1, 2>>
        /\ st[r][i].gpos <= Len(st[r][i].buf)

\* --------------------------------------------------- the normalizer's claim
\* C6 (as claimed): the normalizer returns only for a row all of whose fields
\* have an entry in the specification.
C6_Claim == nstat = "done" => DOMAIN nrow \subseteq DOMAIN norms

\* C6 (amended): a field with no entry in the specification is passed through
\* with its value unchanged; the normalizer fails only at a field whose entry
\* is neither callable nor a mapping, whose callable entry raises, or whose
\* value is unhashable; and what it returns has the row's fields.
C6_Amended ==
    /\ \A f \in DOMAIN nout : f \notin DOMAIN norms => nout[f] = nrow[f]
    /\ nstat = "err"
       => LET f == Head(nkeys)
          IN \/ f \in DOMAIN norms /\ norms[f] = "bad"
             \/ nrow[f] = Unhashable
    /\ nstat = "done" => DOMAIN nout = DOMAIN nrow
    /\ (\A f \in DOMAIN nrow : f \notin DOMAIN norms /\ nrow[f] # Unhashable)
       => nstat # "err"

\* The normalizer has returned a row with a field that has no entry, after
\* rewriting another field.
C6_Witness ==
    /\ nstat = "done"
    /\ \E f \in DOMAIN nrow : f \notin DOMAIN norms
    /\ \E f \in DOMAIN nrow : f \in DOMAIN norms /\ nout[f] # nrow[f]

====
